---- MODULE Spec2Model ----
(***************************************************************************)
(* Seta: the execution engine of src/Seta/SetaCore.py.                     *)
(*                                                                         *)
(* Text is modelled as sequences of one-character strings, so that the     *)
(* line splitter, the numeric-literal recogniser and the identifier check  *)
(* work on characters as the code does.  Python values are records         *)
(* [t, n, d, s]: t is the dynamic type ("none", "int", "float", "str"),    *)
(* n/d the numeric value as a reduced fraction, s the text.                *)
(*                                                                         *)
(* The source file is read once (readlines) and then only ever indexed at  *)
(* text[pointer] with pointer moving forward, so the model draws the line  *)
(* at text[pointer] from FileLines at the moment `instruction` reads it.   *)
(* Of what the program prints, the model keeps the diagnostics (class name *)
(* and line number); other terminal output is not part of the state.       *)
(***************************************************************************)
EXTENDS Integers, Sequences, FiniteSets, TLC

\* ------------------------------------------------------------------ bounds
MaxLines == 5      \* instruction lines after the header line
MaxRich == 2       \* how many of them are drawn from all of FileLines; the
                   \* later ones are drawn from TailLines
MaxNum == 2        \* largest numerator / denominator magnitude of a number
MaxStr == 5        \* longest text value held by a variable or by @AMS
MaxIdLen == 3      \* longest string the identifier grammar is compared on

\* --------------------------------------------------------------- constants
VARIABLE_NUMERIC == 1
VARIABLE_STRING_CONST == 2
RUNTIME_STATUS_RUNNING == 0
RUNTIME_STATUS_PREPARING == 1
RUNTIME_STATUS_QUITED == 2
RUNTIME_STATUS_ERROR == 3
\* EOF (None) as a fetched instruction; PastEnd stands for text[pointer]
\* raising IndexError, where `instruction` and `precheck` put EOF for the line
EOF == [eof |-> TRUE, com |-> <<>>, args |-> <<>>]
PastEnd == <<"IndexError">>

\* -------------------------------------------------------------- characters
DigitSeq == <<"0", "1", "2", "3", "4", "5", "6", "7", "8", "9">>
LowerSeq == <<"a", "b", "c", "d", "e", "f", "g", "h", "i", "j", "k", "l", "m",
              "n", "o", "p", "q", "r", "s", "t", "u", "v", "w", "x", "y", "z">>
UpperSeq == <<"A", "B", "C", "D", "E", "F", "G", "H", "I", "J", "K", "L", "M",
              "N", "O", "P", "Q", "R", "S", "T", "U", "V", "W", "X", "Y", "Z">>
Range(f) == {f[i] : i \in DOMAIN f}
Digits == Range(DigitSeq)
LowerCase == Range(LowerSeq)
UpperCase == Range(UpperSeq)
DigitVal(c) == (CHOOSE i \in 1..10 : DigitSeq[i] = c) - 1

\* str.lower() on one character and on a string
LowerChar(c) == IF c \in UpperCase THEN LowerSeq[CHOOSE i \in 1..26 : UpperSeq[i] = c] ELSE c
\* a comparison of the mnemonic as it is spelled
Lower_AsIs(s) == s
Lower(s) == [i \in 1..Len(s) |-> LowerChar(s[i])]

\* str.split(' '): every single space separates, empty pieces are kept
RECURSIVE SplitFrom(_, _, _)
SplitFrom(s, i, cur) ==
    IF i > Len(s) THEN <<cur>>
    ELSE IF s[i] = " " THEN <<cur>> \o SplitFrom(s, i + 1, <<>>)
    ELSE SplitFrom(s, i + 1, Append(cur, s[i]))
Split(s) == SplitFrom(s, 1, <<>>)

\* ' '.join(tokens)
RECURSIVE Join(_)
Join(toks) ==
    IF Len(toks) = 0 THEN <<>>
    ELSE IF Len(toks) = 1 THEN toks[1]
    ELSE toks[1] \o <<" ">> \o Join(Tail(toks))

\* s[:-1]
DropLast(s) == IF Len(s) = 0 THEN <<>> ELSE SubSeq(s, 1, Len(s) - 1)

\* ----------------------------------------------------------- Python values
Abs(k) == IF k < 0 THEN -k ELSE k
RECURSIVE Gcd(_, _)
Gcd(a, b) == IF b = 0 THEN a ELSE Gcd(b, a % b)

PyNone == [t |-> "none", n |-> 0, d |-> 1, s |-> <<>>]
PyInt(k) == [t |-> "int", n |-> k, d |-> 1, s |-> <<>>]
PyFloat(a, b) ==
    LET g == Gcd(Abs(a), Abs(b))
        sg == IF b < 0 THEN -1 ELSE 1
    IN  [t |-> "float", n |-> sg * (a \div g), d |-> sg * (b \div g), s |-> <<>>]
PyStr(x) == [t |-> "str", n |-> 0, d |-> 1, s |-> x]

IsNum(v) == v.t \in {"int", "float"}
IsStr(v) == v.t = "str"
\* v == 0 in Python: true of 0 and 0.0, false of text and None
IsZero(v) == IsNum(v) /\ v.n = 0
\* a number built from a fraction: int when both operands are int and the
\* operation stays in int, float otherwise
MkNum(asInt, a, b) == IF asInt THEN PyInt(a \div b) ELSE PyFloat(a, b)

IsPow2(k) == k \in {1, 2, 4, 8, 16, 32, 64}
\* the values the model follows: numbers whose fraction is exact in binary
\* floating point and within MaxNum, text within MaxStr
InModel(v) ==
    /\ IsNum(v) => Abs(v.n) <= MaxNum /\ v.d <= MaxNum /\ IsPow2(v.d)
    /\ IsStr(v) => Len(v.s) <= MaxStr

\* ------------------------------------------------- Python operators (calc)
\* The outcome of evaluating a Python expression: exc = "" and the value, or
\* the name of the exception raised.  "Unmodelled" marks a result that is not
\* a fraction (a non-integer exponent).
Ok(v) == [exc |-> "", val |-> v]
Raises(e) == [exc |-> e, val |-> PyNone]

RECURSIVE Rep(_, _)
Rep(s, k) == IF k <= 0 THEN <<>> ELSE s \o Rep(s, k - 1)
RECURSIVE Exp(_, _)
Exp(b, e) == IF e = 0 THEN 1 ELSE b * Exp(b, e - 1)

\* operator.add
py_add(a, b) ==
    IF IsNum(a) /\ IsNum(b)
    THEN Ok(MkNum(a.t = "int" /\ b.t = "int", a.n * b.d + b.n * a.d, a.d * b.d))
    ELSE IF IsStr(a) /\ IsStr(b) THEN Ok(PyStr(a.s \o b.s))
    ELSE Raises("TypeError")

\* operator.sub
py_sub(a, b) ==
    IF IsNum(a) /\ IsNum(b)
    THEN Ok(MkNum(a.t = "int" /\ b.t = "int", a.n * b.d - b.n * a.d, a.d * b.d))
    ELSE Raises("TypeError")

\* operator.mul: numbers multiply, text times int repeats the text
py_mul(a, b) ==
    IF IsNum(a) /\ IsNum(b)
    THEN Ok(MkNum(a.t = "int" /\ b.t = "int", a.n * b.n, a.d * b.d))
    ELSE IF IsStr(a) /\ b.t = "int" THEN Ok(PyStr(Rep(a.s, b.n)))
    ELSE IF a.t = "int" /\ IsStr(b) THEN Ok(PyStr(Rep(b.s, a.n)))
    ELSE Raises("TypeError")

\* operator.truediv: always a float
py_truediv(a, b) ==
    IF IsNum(a) /\ IsNum(b)
    THEN IF b.n = 0 THEN Raises("ZeroDivisionError")
         ELSE Ok(PyFloat(a.n * b.d, a.d * b.n))
    ELSE Raises("TypeError")

\* operator.pow
py_pow(a, b) ==
    IF IsNum(a) /\ IsNum(b)
    THEN IF b.d # 1 THEN Raises("Unmodelled")
         ELSE IF b.n >= 0
              THEN Ok(MkNum(a.t = "int" /\ b.t = "int", Exp(a.n, b.n), Exp(a.d, b.n)))
         ELSE IF a.n = 0 THEN Raises("ZeroDivisionError")
         ELSE Ok(PyFloat(Exp(a.d, -b.n), Exp(a.n, -b.n)))
    ELSE Raises("TypeError")

\* ---------------------------------------------------- literals, identifiers
AllDigits(s) == \A i \in 1..Len(s) : s[i] \in Digits
RECURSIVE ParseNat(_)
ParseNat(s) == IF Len(s) = 0 THEN 0 ELSE 10 * ParseNat(DropLast(s)) + DigitVal(s[Len(s)])
Pow10(k) == Exp(10, k)

\* an unsigned Python number literal: decimal integer (no leading zero unless
\* it is all zeros) or point float
UnsignedLiteral(s) ==
    LET dots == {i \in 1..Len(s) : s[i] = "."} IN
    IF Len(s) = 0 THEN PyNone
    ELSE IF AllDigits(s)
         THEN IF s[1] # "0" \/ (\A i \in 1..Len(s) : s[i] = "0") THEN PyInt(ParseNat(s)) ELSE PyNone
    ELSE IF Cardinality(dots) = 1
         THEN LET p == CHOOSE i \in dots : TRUE
                  ip == SubSeq(s, 1, p - 1)
                  fp == SubSeq(s, p + 1, Len(s))
              IN  IF AllDigits(ip) /\ AllDigits(fp) /\ Len(s) > 1
                  THEN PyFloat(ParseNat(ip) * Pow10(Len(fp)) + ParseNat(fp), Pow10(Len(fp)))
                  ELSE PyNone
    ELSE PyNone

\* a number literal with an optional minus sign
SignedLiteral(r) ==
    IF Len(r) > 1 /\ r[1] = "-"
    THEN LET u == UnsignedLiteral(Tail(r)) IN
         IF u.t = "int" THEN PyInt(-u.n)
         ELSE IF u.t = "float" THEN PyFloat(-u.n, u.d)
         ELSE PyNone
    ELSE UnsignedLiteral(r)

\* Seta.requireReal: eval() of the token; an int or float is returned, anything
\* else (a name, text that does not evaluate) gives None.  Covers the
\* tokens of this model: number literals with an optional minus sign and the
\* Python constants True and False, which eval() gives as the bool (an int)
\* equal to 1 and 0; every other token raises NameError or SyntaxError in
\* eval, or evaluates to a non-number.
requireReal(r) ==
    IF r = <<"T", "r", "u", "e">> THEN PyInt(1)
    ELSE IF r = <<"F", "a", "l", "s", "e">> THEN PyInt(0)
    ELSE SignedLiteral(r)

\* Seta.requireInt
requireInt(i) == LET v == requireReal(i) IN IF v.t = "int" THEN v ELSE PyNone

\* an identifier check that lets `#` be the first character
requireIdentifier_HashFirst(i) ==
    IF Len(i) = 0 THEN FALSE
    ELSE IF \E k \in 1..Len(i) : ~(i[k] \in LowerCase \/ i[k] \in UpperCase
                                   \/ i[k] \in Digits \cup {"_", "#"})
         THEN FALSE
    ELSE IF i[1] \in Digits THEN FALSE
    ELSE TRUE

\* an identifier check that looks at the first character only
requireIdentifier_FirstOnly(i) ==
    IF Len(i) = 0 THEN FALSE
    ELSE IF i[1] \in Digits \cup {"#"} THEN FALSE
    ELSE TRUE

\* Seta.requireIdentifier
requireIdentifier(i) ==
    IF Len(i) = 0 THEN FALSE
    ELSE IF \E k \in 1..Len(i) : ~(i[k] \in LowerCase \/ i[k] \in UpperCase
                                   \/ i[k] \in Digits \cup {"_", "#"})
         THEN FALSE
    ELSE IF i[1] \in Digits \cup {"#"} THEN FALSE
    ELSE TRUE

\* SetaStringOperationCode.instruction, applied to the line at text[pointer]
\* (PastEnd when the index is past the last line)
InstructionOf(l) ==
    IF l = PastEnd THEN EOF
    ELSE IF Len(l) = 0 THEN EOF
    ELSE IF l = <<"\n">> \/ l = <<"\n", "\r">>
         THEN [eof |-> FALSE, com |-> <<"e", "m", "p">>, args |-> <<>>]
    ELSE LET p == Split(DropLast(l)) IN
         IF Len(p) - 1 = 0 THEN [eof |-> FALSE, com |-> p[1], args |-> <<>>]
         ELSE [eof |-> FALSE, com |-> p[1], args |-> Tail(p)]

\* ------------------------------------------------------------------ tokens
t_set == <<"s", "e", "t">>
t_calc == <<"c", "a", "l", "c">>
t_load == <<"l", "o", "a", "d">>
t_call == <<"c", "a", "l", "l">>
t_if == <<"i", "f">>
t_endif == <<"e", "n", "d", "i", "f">>
t_emp == <<"e", "m", "p">>
t_numeric == <<"n", "u", "m", "e", "r", "i", "c">>
t_cstring == <<"c", "s", "t", "r", "i", "n", "g">>
t_AMS == <<"@", "A", "M", "S">>
OPERATION_ADD == <<"a", "d", "d">>
OPERATION_SUB == <<"s", "u", "b">>
OPERATION_MUL == <<"m", "u", "l">>
OPERATION_DIV == <<"d", "i", "v">>
OPERATION_POWER == <<"p", "o", "w", "e", "r">>
COMPARISON_ABOVE == <<">">>
COMPARISON_BELOW == <<"<">>
COMPARISON_EQUAL == <<"=">>
COMPARISON_NOTABOVE == <<"<", "=">>
COMPARISON_NOTBELOW == <<">", "=">>
COMPARISON_NOTEQUAL == <<"!", "=">>
t_builtins == <<"b", "u", "i", "l", "t", "i", "n", "s">>
t_display == <<"d", "i", "s", "p", "l", "a", "y">>
t_ftc == <<"f", "t", "c">>
t_wrap == <<"w", "r", "a", "p">>
t_nInput == <<"n", "I", "n", "p", "u", "t">>
t_breakpoint == <<"b", "r", "e", "a", "k", "p", "o", "i", "n", "t">>
t_integer == <<"i", "n", "t", "e", "g", "e", "r">>
t_float == <<"f", "l", "o", "a", "t">>

\* --------------------------------------------------------- runtime records
\* A Variable object: its type code and its value (None until set)
Variable(vType) == [type |-> vType, value |-> PyNone]

\* The runtime as a handler sees it.  raised names the Python exception
\* propagating out of the handler ("" when it returns normally).
NoException == ""

\* a reporter that leaves the status as it is
error_KeepStatus(st, clsname) ==
    [st EXCEPT !.reported = Append(@, [clsname |-> clsname, lineno |-> st.lineno])]

\* SetaRuntime.error, with the diagnostic's class name and line number kept
error(st, clsname) ==
    [st EXCEPT !.status = RUNTIME_STATUS_ERROR,
               !.reported = Append(@, [clsname |-> clsname, lineno |-> st.lineno])]

Raise(st, e) == [st EXCEPT !.raised = e]

\* SetaRuntime.NamespaceSearch does not return None: name is bound; the
\* Variable it returns is then ns[name]
Bound(ns, name) == name \in DOMAIN ns

\* a namespace that keeps the first binding of a name
NamespaceInput_KeepFirst(ns, name, var) ==
    [k \in DOMAIN ns \cup {name} |-> IF k \in DOMAIN ns THEN ns[k] ELSE var]

\* SetaRuntime.NamespaceInput
NamespaceInput(ns, name, var) ==
    [k \in DOMAIN ns \cup {name} |-> IF k = name THEN var ELSE ns[k]]

\* Variable.set: the isinstance test of the value against the variable's type
Accepts(var, value) ==
    IF IsStr(value) THEN var.type = VARIABLE_STRING_CONST
    ELSE var.type = VARIABLE_NUMERIC

\* a Variable.set that stores the value it refuses
Variable_set_Overwrite(st, var, value) ==
    IF Accepts(var, value)
    THEN [st |-> st, var |-> [var EXCEPT !.value = value], ok |-> TRUE]
    ELSE [st |-> error(st, "ValueException"), var |-> [var EXCEPT !.value = value], ok |-> FALSE]

\* Variable.set on a Variable object: the object after the call and the runtime
\* after the call (a ValueException is reported when the value is refused)
Variable_set(st, var, value) ==
    IF Accepts(var, value)
    THEN [st |-> st, var |-> [var EXCEPT !.value = value], ok |-> TRUE]
    ELSE [st |-> error(st, "ValueException"), var |-> var, ok |-> FALSE]

\* ----------------------------------------------------------- comparisons
\* Characters in code-point order, for the ordering of text
AsciiSeq == <<" ", "!", "#", "-", ".">> \o DigitSeq \o <<"<", "=", ">", "@">>
            \o UpperSeq \o <<"_">> \o LowerSeq
CharOrd(c) == CHOOSE i \in 1..Len(AsciiSeq) : AsciiSeq[i] = c
RECURSIVE StrLess(_, _)
StrLess(a, b) ==
    IF Len(b) = 0 THEN FALSE
    ELSE IF Len(a) = 0 THEN TRUE
    ELSE IF a[1] = b[1] THEN StrLess(Tail(a), Tail(b))
    ELSE CharOrd(a[1]) < CharOrd(b[1])

\* a == b on raw values: numbers by value, text by content, never raises
PyEq(a, b) ==
    IF IsNum(a) /\ IsNum(b) THEN a.n * b.d = b.n * a.d
    ELSE IF IsStr(a) /\ IsStr(b) THEN a.s = b.s
    ELSE a.t = b.t /\ a.t = "none"

\* a < b on raw values: raises TypeError for values that are not ordered
PyLess(a, b) ==
    IF IsNum(a) /\ IsNum(b) THEN [exc |-> "", res |-> a.n * b.d < b.n * a.d]
    ELSE IF IsStr(a) /\ IsStr(b) THEN [exc |-> "", res |-> StrLess(a.s, b.s)]
    ELSE [exc |-> "TypeError", res |-> FALSE]

Comparators == {COMPARISON_ABOVE, COMPARISON_BELOW, COMPARISON_EQUAL,
                COMPARISON_NOTABOVE, COMPARISON_NOTBELOW, COMPARISON_NOTEQUAL}

\* seta_operator.above/below/equal/notabove/notbelow/notequal on raw values
Compare(cmp, a, b) ==
    LET lt == PyLess(a, b)
        gt == PyLess(b, a)
        eq == PyEq(a, b)
    IN  IF cmp = COMPARISON_EQUAL THEN [exc |-> "", res |-> eq]
        ELSE IF cmp = COMPARISON_NOTEQUAL THEN [exc |-> "", res |-> ~eq]
        ELSE IF cmp = COMPARISON_ABOVE THEN gt
        ELSE IF cmp = COMPARISON_BELOW THEN lt
        ELSE IF cmp = COMPARISON_NOTABOVE THEN [exc |-> lt.exc, res |-> lt.res \/ eq]
        ELSE [exc |-> gt.exc, res |-> gt.res \/ eq]

\* ---------------------------------------------------------------- handlers
\* Operand resolution of com_calc and com_if: literal first, then @AMS, then
\* the Namespace; found is FALSE when all three give None
ResolveOperand(st, arg) ==
    LET v == IF arg = t_AMS THEN st.ams ELSE requireReal(arg) IN
    IF v.t # "none" THEN [found |-> TRUE, val |-> v]
    ELSE IF Bound(st.namespace, arg) THEN [found |-> TRUE, val |-> st.namespace[arg].value]
    ELSE [found |-> FALSE, val |-> PyNone]

Operations == {OPERATION_ADD, OPERATION_SUB, OPERATION_MUL, OPERATION_DIV, OPERATION_POWER}

\* the oper table of com_calc
Operate(operation, a, b) ==
    IF operation = OPERATION_ADD THEN py_add(a, b)
    ELSE IF operation = OPERATION_SUB THEN py_sub(a, b)
    ELSE IF operation = OPERATION_MUL THEN py_mul(a, b)
    ELSE IF operation = OPERATION_DIV THEN py_truediv(a, b)
    ELSE py_pow(a, b)

\* a write-back that leaves @AMS alone
CalcStore_NoAms(st, res, r) ==
    LET isNew == ~Bound(st.namespace, res)
        var == IF isNew THEN Variable(VARIABLE_NUMERIC) ELSE st.namespace[res]
        w == Variable_set(st, var, r)
    IN  [w.st EXCEPT !.namespace = NamespaceInput(@, res, w.var)]

\* a write-back to @AMS only
CalcStore_AmsOnly(st, res, r) == [st EXCEPT !.ams = r]

\* the write-back at the end of com_calc: @AMS first, then the result variable
CalcStore(st, res, r) ==
    LET st1 == [st EXCEPT !.ams = r]
        isNew == ~Bound(st1.namespace, res)
        var == IF isNew THEN Variable(VARIABLE_NUMERIC) ELSE st1.namespace[res]
        st2 == IF isNew THEN [st1 EXCEPT !.namespace = NamespaceInput(@, res, var)] ELSE st1
        w == Variable_set(st2, var, r)
    IN  [w.st EXCEPT !.namespace = NamespaceInput(@, res, w.var)]

\* domain guards that let zero to the power zero through
CalcDomainError_DivOnly(operation, var1, var2) ==
    operation = OPERATION_DIV /\ IsZero(var2)

\* the domain guards of com_calc: division by zero, zero to the power zero
CalcDomainError(operation, var1, var2) ==
    \/ operation = OPERATION_DIV /\ IsZero(var2)
    \/ operation = OPERATION_POWER /\ PyEq(var1, var2) /\ IsZero(var2)

com_calc(st, args) ==
    IF Len(args) # 4 THEN Raise(st, "TypeError")
    ELSE LET operation == args[1]
             arg1 == args[2]
             arg2 == args[3]
             res == args[4]
             o1 == ResolveOperand(st, arg1)
             o2 == ResolveOperand(st, arg2)
         IN  IF operation \notin Operations THEN error(st, "ArgumentException")
             ELSE IF ~o1.found THEN error(st, "VariableException")
             ELSE IF ~o2.found THEN error(st, "VariableException")
             ELSE IF CalcDomainError(operation, o1.val, o2.val) THEN error(st, "MathException")
             ELSE IF ~requireIdentifier(res) THEN error(st, "ArgumentException")
             ELSE LET r == Operate(operation, o1.val, o2.val) IN
                  IF r.exc # "" THEN Raise(st, r.exc)
                  ELSE CalcStore(st, res, r.val)

\* a numeric branch that binds the variable before it counts the tokens
SetNumeric_BindFirst(st, name, value, texts) ==
    LET v == requireReal(value) IN
    IF v.t = "none" THEN error(st, "TypeException")
    ELSE LET w == Variable_set(st, Variable(VARIABLE_NUMERIC), v)
             st2 == [w.st EXCEPT !.namespace = NamespaceInput(@, name, w.var)]
         IN  IF Len(texts) # 0 THEN error(st2, "ArgumentException") ELSE st2

\* the numeric branch of com_set
SetNumeric(st, name, value, texts) ==
    LET v == requireReal(value) IN
    IF v.t = "none" THEN error(st, "TypeException")
    ELSE IF Len(texts) # 0 THEN error(st, "ArgumentException")
    ELSE LET w == Variable_set(st, Variable(VARIABLE_NUMERIC), v) IN
         [w.st EXCEPT !.namespace = NamespaceInput(@, name, w.var)]

\* the cstring branch of com_set
SetCString(st, name, value, texts) ==
    LET w == Variable_set(st, Variable(VARIABLE_STRING_CONST), PyStr(Join(<<value>> \o texts))) IN
    [w.st EXCEPT !.namespace = NamespaceInput(@, name, w.var)]

com_set(st, args) ==
    IF Len(args) < 3 THEN Raise(st, "TypeError")
    ELSE LET vType == args[1]
             name == args[2]
             value == args[3]
             texts == SubSeq(args, 4, Len(args))
         IN  IF ~requireIdentifier(name) THEN error(st, "ArgumentException")
             ELSE IF vType = t_numeric THEN SetNumeric(st, name, value, texts)
             ELSE IF vType = t_cstring THEN SetCString(st, name, value, texts)
             ELSE error(st, "ArgumentException")

\* an endif that counts down below zero
com_endif_Unchecked(st, args) ==
    IF Len(args) # 0 THEN Raise(st, "TypeError")
    ELSE [st EXCEPT !.ifs = st.ifs - 1]

com_endif(st, args) ==
    IF Len(args) # 0 THEN Raise(st, "TypeError")
    ELSE [st EXCEPT !.ifs = IF st.ifs # 0 THEN st.ifs - 1 ELSE 0]

com_emp(st, args) ==
    IF Len(args) # 0 THEN Raise(st, "TypeError") ELSE st

com_if(st, args) ==
    IF Len(args) # 3 THEN Raise(st, "TypeError")
    ELSE LET arg1 == args[1]
             cmp == args[2]
             arg2 == args[3]
             o1 == ResolveOperand(st, arg1)
             o2 == ResolveOperand(st, arg2)
         IN  IF ~o1.found THEN error(st, "VariableException")
             ELSE IF ~o2.found THEN error(st, "VariableException")
             ELSE IF cmp \notin Comparators THEN error(st, "OperatorException")
             ELSE LET c == Compare(cmp, o1.val, o2.val) IN
                  IF c.exc # "" THEN error(st, "ComparisonException")
                  ELSE IF ~c.res THEN [st EXCEPT !.ifs = 1]
                  ELSE st

\* ------------------------------------------------------ packages, builtins
\* Objects are named by a string; the pointer register starts at the bound
\* method NullPointerTraceback.
NullPointerTraceback == "NullPointerTraceback"
NoObject == "None"

\* BuiltinsPackage.__init__: the pool of the package `builtins`
BuiltinsPool ==
    (t_display :> "display") @@ (t_ftc :> "ftc") @@ (t_wrap :> "wrap")
    @@ (t_nInput :> "nInput") @@ (t_breakpoint :> "breakpoint")

\* SetaRuntime.packages: package name -> pool
Packages == (t_builtins :> BuiltinsPool)

\* SetaRuntime.PackageSearch followed by Package.ObjectSearch
ObjectSearch(package, identifier) ==
    IF identifier \in DOMAIN Packages[package] THEN Packages[package][identifier] ELSE NoObject

\* BuiltinsPackage.display(var)
display(st, args) ==
    IF Len(args) # 1 THEN Raise(st, "TypeError")
    ELSE IF ~requireIdentifier(args[1]) THEN error(st, "ArgumentException")
    ELSE IF ~Bound(st.namespace, args[1]) THEN error(st, "ArgumentException")
    ELSE st

\* int(v) and float(v) of ftc's func table
Trunc(v) == IF v.n >= 0 THEN v.n \div v.d ELSE -((-v.n) \div v.d)
Convert(tar, v) ==
    IF ~IsNum(v) THEN Raises("TypeError")
    ELSE IF tar = t_integer THEN Ok(PyInt(Trunc(v)))
    ELSE Ok(PyFloat(v.n, v.d))

\* BuiltinsPackage.ftc(arg, tar)
ftc(st, args) ==
    IF Len(args) # 2 THEN Raise(st, "TypeError")
    ELSE LET arg == args[1]
             tar == args[2]
         IN  IF ~requireIdentifier(arg) THEN error(st, "ArgumentException")
             ELSE IF ~Bound(st.namespace, arg) THEN error(st, "VariableException")
             ELSE IF st.namespace[arg].type # VARIABLE_NUMERIC THEN error(st, "TypeException")
             ELSE IF tar \notin {t_integer, t_float} THEN error(st, "ArgumentException")
             ELSE LET c == Convert(tar, st.namespace[arg].value) IN
                  IF c.exc # "" THEN Raise(st, c.exc)
                  ELSE LET w == Variable_set(st, st.namespace[arg], c.val) IN
                       [w.st EXCEPT !.namespace = NamespaceInput(@, arg, w.var)]

\* BuiltinsPackage.wrap(lines='1')
wrap(st, args) ==
    IF Len(args) > 1 THEN Raise(st, "TypeError")
    ELSE LET lines == requireInt(IF Len(args) = 1 THEN args[1] ELSE <<"1">>) IN
         IF lines.t = "none" THEN error(st, "ArgumentException")
         ELSE IF lines.n <= 0 THEN error(st, "ArgumentException")
         ELSE st

\* BuiltinsPackage.nInput(arg, *msg); inp is the first line typed that
\* requireReal accepts (lines it refuses only repeat the prompt)
nInput(st, args, inp) ==
    IF Len(args) < 1 THEN Raise(st, "TypeError")
    ELSE LET arg == args[1] IN
         IF ~requireIdentifier(arg) THEN error(st, "ArgumentException")
         ELSE IF ~Bound(st.namespace, arg) THEN error(st, "VariableException")
         ELSE IF st.namespace[arg].type # VARIABLE_NUMERIC THEN error(st, "TypeException")
         ELSE LET w == Variable_set(st, st.namespace[arg], requireReal(inp)) IN
              [w.st EXCEPT !.namespace = NamespaceInput(@, arg, w.var)]

\* BuiltinsPackage.breakpoint()
breakpoint(st, args) ==
    IF Len(args) # 0 THEN Raise(st, "TypeError") ELSE st

\* SetaRuntime.NullPointerTraceback()
NullPointerTracebackCall(st, args) ==
    IF Len(args) # 0 THEN Raise(st, "TypeError") ELSE error(st, "NullPointerException")

\* self.ptr(*args): the call of the object the pointer register holds
Invoke(obj, st, args, inp) ==
    IF obj = NullPointerTraceback THEN NullPointerTracebackCall(st, args)
    ELSE IF obj = "display" THEN display(st, args)
    ELSE IF obj = "ftc" THEN ftc(st, args)
    ELSE IF obj = "wrap" THEN wrap(st, args)
    ELSE IF obj = "nInput" THEN nInput(st, args, inp)
    ELSE breakpoint(st, args)

\* callable(self.ptr): every object of the pool and NullPointerTraceback is a
\* bound method
Callable(obj) == obj # NoObject

\* called records the object that self.ptr(*args) calls
com_call(st, args, inp) ==
    IF st.ptr = NoObject THEN error(st, "NullPointerException")
    ELSE IF ~Callable(st.ptr) THEN error(st, "ArgumentException")
    ELSE [Invoke(st.ptr, st, args, inp) EXCEPT !.called = st.ptr]

\* a load that takes its single token for the package name
com_load_NoDefault(st, args) ==
    IF Len(args) \notin {1, 2} THEN Raise(st, "TypeError")
    ELSE LET package == args[1]
             identifier == IF Len(args) = 1 THEN args[1] ELSE args[2]
         IN  IF package \notin DOMAIN Packages THEN error(st, "PackageException")
             ELSE IF ObjectSearch(package, identifier) = NoObject THEN error(st, "PackageException")
             ELSE [st EXCEPT !.ptr = ObjectSearch(package, identifier)]

com_load(st, args) ==
    IF Len(args) \notin {1, 2} THEN Raise(st, "TypeError")
    ELSE LET package == IF Len(args) = 1 THEN t_builtins ELSE args[1]
             identifier == IF Len(args) = 1 THEN args[1] ELSE args[2]
         IN  IF package \notin DOMAIN Packages THEN error(st, "PackageException")
             ELSE IF ObjectSearch(package, identifier) = NoObject THEN error(st, "PackageException")
             ELSE [st EXCEPT !.ptr = ObjectSearch(package, identifier)]

\* ------------------------------------------------------------ header check
t_flag == <<"S", "E", "T", "A", "-", "S", "O", "C">>

\* float(version): None stands for ValueError
FloatOf(s) ==
    LET signed == Len(s) > 0 /\ s[1] \in {"-", "+"}
        body == IF signed THEN Tail(s) ELSE s
        dots == {i \in 1..Len(body) : body[i] = "."}
        neg == IF signed /\ s[1] = "-" THEN -1 ELSE 1
    IN  IF Len(body) = 0 THEN PyNone
        ELSE IF AllDigits(body) THEN PyFloat(neg * ParseNat(body), 1)
        ELSE IF Cardinality(dots) = 1
             THEN LET p == CHOOSE i \in dots : TRUE
                      ip == SubSeq(body, 1, p - 1)
                      fp == SubSeq(body, p + 1, Len(body))
                  IN  IF AllDigits(ip) /\ AllDigits(fp) /\ Len(body) > 1
                      THEN PyFloat(neg * (ParseNat(ip) * Pow10(Len(fp)) + ParseNat(fp)), Pow10(Len(fp)))
                      ELSE PyNone
        ELSE PyNone

\* Seta.version
SetaVersion == PyFloat(1, 1)

\* SetaStringOperationCode.precheck on the first line (PastEnd for an empty file):
\* the result code
precheck(line1) ==
    IF line1 = PastEnd THEN 5
    ELSE IF Len(line1) = 0 THEN 5
    ELSE LET l == Split(DropLast(line1)) IN
         IF Len(l) = 2
         THEN IF l[1] # t_flag THEN 1
              ELSE IF FloatOf(l[2]).t = "none" THEN 2
              ELSE IF PyLess(SetaVersion, FloatOf(l[2])).res THEN 3
              ELSE 0
         ELSE 4

\* -------------------------------------------------------------- the inputs
n_x == <<"x">>
n_s == <<"s">>
n_u == <<"u">>
n_bad == <<"9", "x">>
n_True == <<"T", "r", "u", "e">>
l_m2 == <<"-", "2">>
l_0 == <<"0">>
l_2 == <<"2">>
w_ab == <<"a", "b">>
w_cd == <<"c", "d">>
t_int == <<"i", "n", "t">>
t_mod == <<"m", "o", "d">>
t_nope == <<"n", "o", "p", "e">>
t_p == <<"p">>
t_foo == <<"f", "o", "o">>
c_bad == <<"=", "=">>
n_a9 == <<"a", "_", "9">>
n_hash == <<"#", "t", "m", "p", "_", "1">>
n_dash == <<"a", "-", "b">>
n_empty == <<>>
t_SET == <<"S", "E", "T">>
t_Calc == <<"C", "a", "l", "c">>
t_LOAD == <<"L", "O", "A", "D">>
t_Call == <<"C", "a", "l", "l">>
t_If == <<"I", "f">>
t_EndIf == <<"E", "n", "d", "I", "f">>
t_EMP == <<"E", "M", "P">>

\* a line of the source file: the tokens joined by single spaces, then "\n"
Line(toks) == Join(toks) \o <<"\n">>

\* first lines of the file; the last one is the only line of a file that does
\* not end with a newline
Headers ==
    { Line(<<t_flag, <<"1", ".", "0">> >>), Line(<<t_flag, <<"9", "9", ".", "0">> >>),
      Line(<<t_flag, w_ab>>), Line(<<w_ab, <<"1", ".", "0">> >>), Line(<<t_flag>>),
      Line(<<t_flag, <<"1", ".", "0">>, w_ab>>), <<"\n">>,
      Join(<<t_flag, <<"1", "0">> >>) }

\* the line ends with a newline: readlines() leaves only the last line of the
\* file without one
Terminated(l) == l # PastEnd /\ Len(l) > 0 /\ l[Len(l)] = "\n"

SetLines ==
    { Line(<<t_set, t_numeric, n_x, l_0>>), Line(<<t_set, t_numeric, n_x, l_2>>),
      Line(<<t_set, t_cstring, n_s, w_ab>>), Line(<<t_set, t_cstring, n_x, w_ab, w_cd>>),
      Line(<<t_set, t_numeric, n_s, l_2>>), Line(<<t_set, t_numeric, n_x, w_ab>>),
      Line(<<t_set, t_numeric, n_x, l_2, l_2>>), Line(<<t_set, t_int, n_x, l_2>>),
      Line(<<t_set, t_numeric, n_bad, l_2>>), Line(<<t_set, t_numeric, n_x>>),
      Line(<<t_set, t_numeric, n_a9, l_2>>), Line(<<t_set, t_numeric, n_hash, l_2>>),
      Line(<<t_set, t_numeric, n_dash, l_2>>), Line(<<t_set, t_numeric, n_empty, l_2>>),
      Line(<<t_SET, t_numeric, n_x, l_2>>), Line(<<t_set, t_numeric, n_True, l_2>>) }

CalcLines ==
    { Line(<<t_calc, OPERATION_DIV, l_2, l_2, n_x>>), Line(<<t_calc, OPERATION_DIV, l_0, l_2, n_x>>),
      Line(<<t_calc, OPERATION_DIV, l_2, l_0, n_x>>), Line(<<t_calc, OPERATION_DIV, n_x, l_0, n_x>>),
      Line(<<t_calc, OPERATION_DIV, t_AMS, l_0, n_x>>), Line(<<t_calc, OPERATION_DIV, l_2, l_0, n_bad>>),
      Line(<<t_calc, OPERATION_DIV, l_2, l_2, n_s>>), Line(<<t_calc, OPERATION_DIV, l_2, l_2, n_bad>>),
      Line(<<t_calc, OPERATION_DIV, n_s, l_2, n_x>>),
      Line(<<t_calc, OPERATION_POWER, l_0, l_0, n_x>>), Line(<<t_calc, OPERATION_POWER, l_0, l_0, n_bad>>),
      Line(<<t_calc, OPERATION_POWER, l_0, n_x, n_x>>), Line(<<t_calc, OPERATION_POWER, l_2, n_s, n_x>>),
      Line(<<t_calc, OPERATION_ADD, n_s, l_2, n_x>>), Line(<<t_calc, OPERATION_ADD, l_2, n_s, n_x>>),
      Line(<<t_calc, OPERATION_ADD, n_s, n_s, n_x>>), Line(<<t_calc, OPERATION_ADD, n_x, l_2, n_x>>),
      Line(<<t_calc, OPERATION_ADD, n_u, l_2, n_x>>), Line(<<t_calc, OPERATION_ADD, t_AMS, n_u, n_x>>),
      Line(<<t_calc, OPERATION_ADD, n_True, l_0, n_x>>),
      Line(<<t_calc, OPERATION_SUB, l_0, l_2, n_x>>), Line(<<t_calc, OPERATION_SUB, n_s, l_2, n_x>>),
      Line(<<t_calc, OPERATION_MUL, n_s, l_2, n_x>>), Line(<<t_calc, OPERATION_MUL, n_x, t_AMS, n_x>>),
      Line(<<t_calc, t_mod, l_2, l_2, n_x>>), Line(<<t_calc, OPERATION_ADD, l_2, l_2>>),
      Line(<<t_calc, OPERATION_DIV, l_2, l_2, n_x, n_x>>),
      Line(<<t_Calc, OPERATION_DIV, l_2, l_2, n_x>>),
      Line(<<t_calc, OPERATION_POWER, l_0, l_m2, n_x>>) }

LoadLines ==
    { Line(<<t_load, t_display>>), Line(<<t_load, t_builtins, t_ftc>>),
      Line(<<t_load, t_nInput>>), Line(<<t_load, t_wrap>>), Line(<<t_load, t_breakpoint>>),
      Line(<<t_load, t_nope>>), Line(<<t_load, t_p, t_display>>), Line(<<t_load>>),
      Line(<<t_load, t_builtins, t_ftc, n_x>>), Line(<<t_LOAD, t_display>>) }

CallLines ==
    { Line(<<t_call>>), Line(<<t_call, n_x>>), Line(<<t_call, n_x, t_integer>>),
      Line(<<t_call, l_0>>), Line(<<t_Call>>) }

IfLines ==
    { Line(<<t_if, l_2, COMPARISON_ABOVE, l_0>>), Line(<<t_if, l_0, COMPARISON_ABOVE, l_2>>),
      Line(<<t_if, n_x, COMPARISON_EQUAL, l_2>>), Line(<<t_if, n_s, COMPARISON_BELOW, l_2>>),
      Line(<<t_if, n_u, COMPARISON_NOTABOVE, l_0>>), Line(<<t_if, l_2, c_bad, l_0>>),
      Line(<<t_if, l_2, COMPARISON_ABOVE>>), Line(<<t_if, t_AMS, COMPARISON_NOTEQUAL, l_0>>),
      Line(<<t_if, l_2, COMPARISON_NOTBELOW, n_x>>),
      Line(<<t_if, l_2, COMPARISON_ABOVE, l_0, n_x>>), Line(<<t_If, l_0, COMPARISON_ABOVE, l_2>>) }

OtherLines ==
    { Line(<<t_endif>>), Line(<<t_endif, n_x>>), Line(<<t_emp>>), Line(<<t_emp, n_x>>), <<"\n">>,
      Line(<<t_foo>>), Line(<<t_EndIf>>), Line(<<t_EMP>>) }

\* lines without a newline at their end: each can only be the last line of
\* the file
l_20 == <<"2", "0">>
LastLines == { Join(<<t_set, t_numeric, n_x, l_20>>), Join(<<t_endif>>) }

\* the lines an instruction line of the file is drawn from
FileLines ==
    SetLines \cup CalcLines \cup LoadLines \cup CallLines \cup IfLines \cup OtherLines
    \cup LastLines

\* the lines the later lines of the file are drawn from
TailLines ==
    { Line(<<t_if, l_0, COMPARISON_ABOVE, l_2>>), Line(<<t_if, l_2, COMPARISON_ABOVE, l_0>>),
      Line(<<t_endif>>), <<"\n">>, Line(<<t_set, t_numeric, n_x, l_2>>),
      Line(<<t_call, n_x>>), Line(<<t_load, t_builtins, t_ftc>>) }

\* what the user types when nInput reads a number
Inputs == {l_0, l_2}

\* ------------------------------------------------------------------- state
VARIABLES
    header,      \* SetaStringOperationCode.text[0], the first line of the file
                 \* (PastEnd when the file has no line or was not read)
    status,      \* SetaRuntime.status
    namespace,   \* SetaRuntime.namespace: name -> Variable
    ams,         \* SetaRuntime.ams
    ifs,         \* SetaRuntime.ifs
    ptr,         \* SetaRuntime.ptr
    current,     \* SetaRuntime.current: lineno and the fetched instruction
    source,      \* the line of text the fetched instruction was read from,
                 \* text[pointer - 1] (PastEnd when the read was past the end)
    pointer,     \* SetaStringOperationCode.pointer
    reported,    \* the diagnostics printed by SetaRuntime.error, in order
    pc,          \* "run" in the loop, "exited" after sys.exit(), "crashed"
                 \* after an exception nothing catches
    last         \* the last loop iteration that processed an instruction:
                 \* its line, the instruction, the handler it invoked ("skip"
                 \* if none) and, for com_call, the object called

vars == <<header, status, namespace, ams, ifs, ptr, current, source, pointer, reported, pc, last>>

\* the runtime handed to a handler
Rt ==
    [status |-> status, namespace |-> namespace, ams |-> ams, ifs |-> ifs, ptr |-> ptr,
     reported |-> reported, lineno |-> current.lineno, raised |-> NoException,
     called |-> NoObject]

\* SetaRuntime.__init__ (lineno 0, no code fetched)
NewRuntime ==
    [status |-> RUNTIME_STATUS_RUNNING, namespace |-> <<>>, ams |-> PyInt(0), ifs |-> 0,
     ptr |-> NullPointerTraceback, reported |-> <<>>, lineno |-> 0, raised |-> NoException,
     called |-> NoObject]

Commit(st) ==
    /\ status' = st.status
    /\ namespace' = st.namespace
    /\ ams' = st.ams
    /\ ifs' = st.ifs
    /\ ptr' = st.ptr
    /\ reported' = st.reported

\* every value the runtime holds is one the model follows
StInModel(st) ==
    /\ InModel(st.ams)
    /\ \A k \in DOMAIN st.namespace : InModel(st.namespace[k].value)

\* the lines text[pointer] can be: the file has at most MaxLines lines after
\* the header, the first MaxRich of them any of FileLines; nothing follows a
\* line without a newline
NextLines ==
    IF ~Terminated(header) \/ ~Terminated(source) \/ pointer > MaxLines THEN {PastEnd}
    ELSE IF pointer > MaxRich THEN TailLines \cup {PastEnd}
    ELSE FileLines \cup {PastEnd}

\* a fetch that leaves the line number where it was
Advance_KeepLineno ==
    \E l \in NextLines :
        /\ current' = [lineno |-> current.lineno, code |-> InstructionOf(l)]
        /\ source' = l
        /\ pointer' = IF l = PastEnd THEN pointer ELSE pointer + 1

\* self.current['lineno'] += 1; self.current['code'] = self.support.instruction
Advance ==
    \E l \in NextLines :
        /\ current' = [lineno |-> current.lineno + 1, code |-> InstructionOf(l)]
        /\ source' = l
        /\ pointer' = IF l = PastEnd THEN pointer ELSE pointer + 1

\* Seta.__init__: the runtime, the file test, the stream with its precheck,
\* setSupport with the first fetch
Init ==
    \E file \in {"missing", "unreadable", "ok"}, line1 \in Headers \cup {PastEnd},
       first \in FileLines \cup {PastEnd} :
        LET st0 == NewRuntime
            pre == precheck(line1)
            st1 == IF file # "ok" THEN error(st0, "RunningException")
                   ELSE IF pre # 0 THEN error([st0 EXCEPT !.lineno = 1], "PrecheckException")
                   ELSE st0
            l == IF Terminated(line1) THEN first ELSE PastEnd
        IN  /\ file # "ok" => line1 = PastEnd
            /\ header = line1
            /\ status = st1.status
            /\ namespace = st1.namespace
            /\ ams = st1.ams
            /\ ifs = st1.ifs
            /\ ptr = st1.ptr
            /\ reported = st1.reported
            /\ current = IF file # "ok" THEN [lineno |-> 0, code |-> EOF]
                         ELSE [lineno |-> 2, code |-> InstructionOf(l)]
            /\ source = IF file # "ok" THEN PastEnd ELSE l
            /\ pointer = IF file # "ok" THEN 0
                         ELSE (IF line1 = PastEnd THEN 0 ELSE 1) + (IF l = PastEnd THEN 0 ELSE 1)
            /\ pc = "run"
            /\ last = [lineno |-> 0, code |-> EOF, handler |-> "none", target |-> NoObject]

\* ---------------------------------------------------------------- run loop
Mnemonics == {t_set, t_calc, t_load, t_emp, t_if, t_call}

\* a loop top that does not look at the status
Fetched_IgnoreStatus == pc = "run" /\ current.code # EOF

\* the loop is past both exits of its top: status is Running and an
\* instruction is fetched
Fetched == pc = "run" /\ status = RUNTIME_STATUS_RUNNING /\ current.code # EOF

\* an except clause that swallows the TypeError
CatchTypeError_Swallow(st) == Raise(st, NoException)

\* the except TypeError clause around a handler call: ArgumentException
CatchTypeError(st) ==
    IF st.raised = "TypeError" THEN error(Raise(st, NoException), "ArgumentException") ELSE st

\* the rest of an iteration after the handler h returned or raised: TypeError
\* is caught and reported and the next instruction is fetched; any other
\* exception leaves run() and ends the process
Dispatch(h, st) ==
    /\ st.raised # "Unmodelled"
    /\ StInModel(st)
    /\ last' = [lineno |-> current.lineno, code |-> current.code, handler |-> h,
                target |-> st.called]
    /\ IF st.raised \in {NoException, "TypeError"}
       THEN /\ Commit(CatchTypeError(st))
            /\ Advance
            /\ pc' = pc
       ELSE /\ Commit(st)
            /\ pc' = "crashed"
            /\ UNCHANGED <<current, source, pointer>>
    /\ UNCHANGED header

\* if self.status: sys.exit()
RunHalt ==
    /\ pc = "run"
    /\ status # RUNTIME_STATUS_RUNNING
    /\ pc' = "exited"
    /\ UNCHANGED <<header, status, namespace, ams, ifs, ptr, current, source, pointer,
                   reported, last>>

\* an end of stream that never reports
EndOfStream_Silent(st) == st

\* the report at End-Of-Stream: an open skipped block is a BlockException
EndOfStream(st) == IF st.ifs # 0 THEN error(st, "BlockException") ELSE st

\* a loop top that tests End-Of-Stream before the status
RunEOF_BeforeStatus ==
    /\ pc = "run"
    /\ current.code = EOF
    /\ Commit(EndOfStream(Rt))
    /\ pc' = "exited"
    /\ UNCHANGED <<header, current, source, pointer, last>>

\* if self.current['code'] == EOF: report an open block, sys.exit()
RunEOF ==
    /\ pc = "run"
    /\ status = RUNTIME_STATUS_RUNNING
    /\ current.code = EOF
    /\ Commit(EndOfStream(Rt))
    /\ pc' = "exited"
    /\ UNCHANGED <<header, current, source, pointer, last>>

RunEndif ==
    /\ Fetched
    /\ Lower(current.code.com) = t_endif
    /\ Dispatch("com_endif", com_endif(Rt, current.code.args))

\* a skip that does not count nested ifs
SkipDepth_Flat(depth, com) == depth

\* the skip of an instruction inside an unreachable block
SkipDepth(depth, com) == IF Lower(com) = t_if THEN depth + 1 ELSE depth

RunSkip ==
    /\ Fetched
    /\ Lower(current.code.com) # t_endif
    /\ ifs # 0
    /\ ifs' = SkipDepth(ifs, current.code.com)
    /\ Advance
    /\ last' = [lineno |-> current.lineno, code |-> current.code, handler |-> "skip",
                target |-> NoObject]
    /\ UNCHANGED <<header, status, namespace, ams, ptr, reported, pc>>

\* a chain over the mnemonics that is entered at any depth
Reached_AnyDepth(mnemonic) ==
    /\ Fetched
    /\ Lower(current.code.com) # t_endif
    /\ Lower(current.code.com) = mnemonic

\* the instruction reaches the if/elif chain over the mnemonics
Reached(mnemonic) ==
    /\ Fetched
    /\ Lower(current.code.com) # t_endif
    /\ ifs = 0
    /\ Lower(current.code.com) = mnemonic

RunSet == Reached(t_set) /\ Dispatch("com_set", com_set(Rt, current.code.args))

RunCalc == Reached(t_calc) /\ Dispatch("com_calc", com_calc(Rt, current.code.args))

RunLoad == Reached(t_load) /\ Dispatch("com_load", com_load(Rt, current.code.args))

RunEmp == Reached(t_emp) /\ Dispatch("com_emp", com_emp(Rt, current.code.args))

RunIf == Reached(t_if) /\ Dispatch("com_if", com_if(Rt, current.code.args))

RunCall ==
    /\ Reached(t_call)
    /\ \E inp \in Inputs : Dispatch("com_call", com_call(Rt, current.code.args, inp))

RunUnsupported ==
    /\ Fetched
    /\ Lower(current.code.com) \notin Mnemonics \cup {t_endif}
    /\ ifs = 0
    /\ Dispatch("unsupported", error(Rt, "UnsupportedOperationException"))

Next ==
    \/ RunHalt
    \/ RunEOF
    \/ RunEndif
    \/ RunSkip
    \/ RunSet
    \/ RunCalc
    \/ RunLoad
    \/ RunEmp
    \/ RunIf
    \/ RunCall
    \/ RunUnsupported

Spec == Init /\ [][Next]_vars

\* ------------------------------------------------------------------- types
TypeOK ==
    /\ status \in {RUNTIME_STATUS_RUNNING, RUNTIME_STATUS_ERROR}
    /\ ifs \in 0..(MaxLines + 1)
    /\ pc \in {"run", "exited", "crashed"}
    /\ pointer \in 0..(MaxLines + 1)

\* ------------------------------------------------------------- properties
Com == Lower(current.code.com)
Args == current.code.args
Diag(clsname) == [clsname |-> clsname, lineno |-> current.lineno]
Reports(clsname) == reported' = Append(reported, Diag(clsname))
Silent == reported' = reported
HasDiag(clsname) == \E i \in 1..Len(reported) : reported[i].clsname = clsname

\* C1: Skip-depth nesting.  While depth > 0 every `if` line raises the depth
\* by one whatever its arguments are, every `endif` line lowers it by one,
\* every other line leaves it; no line other than `endif` is handed to a
\* handler or changes the runtime while depth > 0; and an instruction fetched
\* at depth 0 (so also the one right after the closing `endif`) is handed to
\* its handler in that very iteration.
C1_SkipNesting ==
    [][ /\ (Fetched /\ ifs > 0) =>
            /\ Com = t_if => ifs' = ifs + 1
            /\ (Com = t_endif /\ Args = <<>>) => ifs' = ifs - 1
            /\ Com \notin {t_if, t_endif} => ifs' = ifs
            /\ Com # t_endif =>
                  /\ last'.handler = "skip"
                  /\ UNCHANGED <<status, namespace, ams, ptr, reported>>
        /\ (Fetched /\ ifs = 0) =>
            /\ last'.handler \notin {"skip", "none"}
            /\ last'.lineno = current.lineno
            /\ ifs' \in {0, 1}
      ]_vars

\* a nested `if` met while skipping has raised the depth to 2
C1_Witness == ifs = 2 /\ last.handler = "skip" /\ status = RUNTIME_STATUS_RUNNING

\* C2: a run that reaches End-Of-Stream right after executing an `if` (the
\* block that `if` opens is still open, whatever its condition was) has
\* reported a diagnostic.
C2_OpenIfReported ==
    (pc = "exited" /\ current.code = EOF /\ last.handler = "com_if") => reported # <<>>

\* C3: at End-Of-Stream with status Running the loop exits; with depth > 0 it
\* reports exactly one BlockException first, with depth 0 it reports nothing.
C3_EndOfStream ==
    [][ (pc = "run" /\ status = RUNTIME_STATUS_RUNNING /\ current.code = EOF) =>
            /\ pc' = "exited"
            /\ ifs > 0 => reported' = <<Diag("BlockException")>> /\ status' = RUNTIME_STATUS_ERROR
            /\ ifs = 0 => reported' = <<>> /\ status' = RUNTIME_STATUS_RUNNING
      ]_vars

\* the run ended at End-Of-Stream inside a skipped block
C3_Witness ==
    /\ pc = "exited"
    /\ current.code = EOF
    /\ ifs > 0
    /\ Len(reported) = 1
    /\ reported[1].clsname = "BlockException"

\* C4: a `set` that reports a diagnostic leaves the Namespace as it was.
C4_FailedSetKeepsNamespace ==
    [][ (Fetched /\ ifs = 0 /\ Com = t_set /\ reported' # reported) => namespace' = namespace ]_vars

\* a `set` has failed with a variable already bound
C4_Witness ==
    /\ last.handler = "com_set"
    /\ status = RUNTIME_STATUS_ERROR
    /\ DOMAIN namespace # {}

\* the token names a StringConst variable
NamesStringConst(arg) ==
    /\ arg # t_AMS
    /\ requireReal(arg).t = "none"
    /\ Bound(namespace, arg)
    /\ namespace[arg].type = VARIABLE_STRING_CONST

\* the token is a numeric operand: a literal, @AMS holding a number, or the
\* name of a Numeric variable
NumericOperand(arg) ==
    \/ arg # t_AMS /\ requireReal(arg).t # "none"
    \/ arg = t_AMS /\ IsNum(ams)
    \/ /\ arg # t_AMS
       /\ Bound(namespace, arg)
       /\ namespace[arg].type = VARIABLE_NUMERIC

Resolvable(arg) == NamesStringConst(arg) \/ NumericOperand(arg)

\* an executed `calc` with four arguments
CalcStep == Fetched /\ ifs = 0 /\ Com = t_calc /\ Len(Args) = 4

\* C5: a `calc` with an arithmetic operation, both operands resolvable and one
\* of them the name of a StringConst variable reports TypeException and writes
\* neither the Namespace nor @AMS.
C5_StringOperandTypeException ==
    [][ ( /\ CalcStep
          /\ Args[1] \in Operations
          /\ Resolvable(Args[2]) /\ Resolvable(Args[3])
          /\ NamesStringConst(Args[2]) \/ NamesStringConst(Args[3]) ) =>
            /\ Reports("TypeException")
            /\ namespace' = namespace
            /\ ams' = ams
      ]_vars

\* the literal token is zero
ZeroLiteral(arg) == arg # t_AMS /\ IsZero(requireReal(arg))

\* C6: `calc div a 0 r` with a numeric operand a, and `calc power 0 0 r`,
\* report MathException and leave Namespace and @AMS as they were, whether or
\* not r is an identifier.
C6_DomainErrors ==
    [][ ( /\ CalcStep
          /\ \/ Args[1] = OPERATION_DIV /\ NumericOperand(Args[2]) /\ ZeroLiteral(Args[3])
             \/ Args[1] = OPERATION_POWER /\ ZeroLiteral(Args[2]) /\ ZeroLiteral(Args[3]) ) =>
            /\ Reports("MathException")
            /\ namespace' = namespace
            /\ ams' = ams
      ]_vars

\* a MathException was reported with a variable bound
C6_Witness ==
    /\ last.handler = "com_calc"
    /\ Len(reported) = 1
    /\ reported[1].clsname = "MathException"
    /\ DOMAIN namespace # {}

\* v is the number a / b: v times b equals a
IsQuotient(v, a, b) == IsNum(v) /\ v.n * (b.n * a.d) = (a.n * b.d) * v.d

\* `calc div a b r` with literals a and b, b not zero, r an identifier
DivLiterals ==
    /\ CalcStep
    /\ Args[1] = OPERATION_DIV
    /\ Args[2] # t_AMS /\ requireReal(Args[2]).t # "none"
    /\ Args[3] # t_AMS /\ requireReal(Args[3]).t # "none"
    /\ ~IsZero(requireReal(Args[3]))
    /\ requireIdentifier(Args[4])

\* after the step r is bound to a variable holding a / b, @AMS holds the same
\* and nothing was reported
DivStored ==
    /\ Bound(namespace', Args[4])
    /\ IsQuotient(namespace'[Args[4]].value, requireReal(Args[2]), requireReal(Args[3]))
    /\ ams' = namespace'[Args[4]].value
    /\ Silent
    /\ status' = RUNTIME_STATUS_RUNNING

\* C7 as stated: for every identifier r
C7_DivAnyResult == [][ DivLiterals => DivStored ]_vars

\* C7, amended: for every identifier r that is unbound or bound to a Numeric
\* variable, `calc div a b r` with literals a and b, b not zero, leaves r
\* holding a / b and @AMS the same, with no diagnostic.
C7_DivNumericResult ==
    [][ ( /\ DivLiterals
          /\ Bound(namespace, Args[4]) => namespace[Args[4]].type = VARIABLE_NUMERIC ) =>
            DivStored
      ]_vars

\* a division has stored 2 / 2 in x and in @AMS
C7_Witness ==
    /\ last.handler = "com_calc"
    /\ status = RUNTIME_STATUS_RUNNING
    /\ Bound(namespace, n_x)
    /\ namespace[n_x].value = PyFloat(1, 1)
    /\ ams = PyFloat(1, 1)

\* the object `load` resolves its arguments to (NoObject when there is none)
Resolved(args) ==
    IF Len(args) = 1
    THEN (IF args[1] \in DOMAIN BuiltinsPool THEN BuiltinsPool[args[1]] ELSE NoObject)
    ELSE IF Len(args) = 2 /\ args[1] \in DOMAIN Packages /\ args[2] \in DOMAIN Packages[args[1]]
         THEN Packages[args[1]][args[2]]
    ELSE NoObject

\* C8: a `load` with one token resolves it in `builtins`, with two tokens in
\* the named package; a successful load puts exactly the resolved object in
\* the pointer register; a load with an unknown package or object reports
\* PackageException and leaves the register; `call` calls the object the
\* register holds and leaves the register; no other step changes it.
C8_PointerRegister ==
    [][ /\ (Fetched /\ ifs = 0 /\ Com = t_load /\ Len(Args) \in {1, 2}) =>
            IF Resolved(Args) # NoObject
            THEN ptr' = Resolved(Args) /\ Silent
            ELSE ptr' = ptr /\ Reports("PackageException")
        /\ (Fetched /\ ifs = 0 /\ Com = t_call) => (ptr' = ptr /\ last'.target = ptr)
        /\ ~(Fetched /\ ifs = 0 /\ Com = t_load) => ptr' = ptr
      ]_vars

\* a `call` has called an object that a `load` put in the register
C8_Witness ==
    /\ last.handler = "com_call"
    /\ ptr # NullPointerTraceback
    /\ last.target = ptr

\* C9: a `call` executed while the pointer register still holds its initial
\* value reports NullPointerException, whatever its arguments are.
C9_CallBeforeLoad ==
    [][ (Fetched /\ ifs = 0 /\ Com = t_call /\ ptr = NullPointerTraceback) =>
            Reports("NullPointerException")
      ]_vars

\* C10: once the status is Error the only step left is the exit at the top of
\* the loop: the status stays Error and no instruction is handled; after a
\* RunningException (no file) no instruction is ever handled.
C10_ErrorHalts ==
    [][ /\ status = RUNTIME_STATUS_ERROR =>
            /\ pc' = "exited"
            /\ UNCHANGED <<status, namespace, ams, ifs, ptr, current, pointer, reported, last>>
        /\ HasDiag("RunningException") => last'.handler = "none"
      ]_vars

\* the loop has exited on Error with a fetched instruction left unhandled
C10_Witness ==
    /\ pc = "exited"
    /\ status = RUNTIME_STATUS_ERROR
    /\ last.handler \notin {"none", "skip"}
    /\ current.code # EOF

\* C11: a run that ended at End-Of-Stream with nothing reported has status
\* Quited.
C11_QuitedAtEnd ==
    (pc = "exited" /\ current.code = EOF /\ reported = <<>>) =>
        status = RUNTIME_STATUS_QUITED

\* C12: a run that ended after a PrecheckException with an instruction fetched
\* behind the header line has dispatched that instruction.
C12_PrecheckAdvisory ==
    (pc = "exited" /\ HasDiag("PrecheckException") /\ current.code # EOF) =>
        last.handler # "none"

\* the content of a line: the line without its newline
Content(l) == IF Terminated(l) THEN DropLast(l) ELSE l

\* the outcome the header line is classified into, by its content
HeaderOutcome(l) ==
    IF l = PastEnd THEN "empty-input"
    ELSE LET toks == Split(Content(l)) IN
         IF Len(toks) # 2 THEN "wrong-token-count"
         ELSE IF toks[1] # t_flag THEN "malformed-flag"
         ELSE IF FloatOf(toks[2]).t = "none" THEN "non-numeric-version"
         ELSE IF PyLess(SetaVersion, FloatOf(toks[2])).res THEN "version-too-high"
         ELSE "pass"

\* how many diagnostics of the class were reported
Count(clsname) == Cardinality({i \in 1..Len(reported) : reported[i].clsname = clsname})

\* C13: when the file was read, the header line's outcome is pass exactly when
\* no PrecheckException was reported, and every other outcome has reported
\* exactly one.
C13_HeaderOutcome ==
    ~HasDiag("RunningException") =>
        Count("PrecheckException") = IF HeaderOutcome(header) = "pass" THEN 0 ELSE 1

\* an executed `set numeric <name> <literal>`
SetNumericStep ==
    /\ Fetched /\ ifs = 0 /\ Com = t_set
    /\ Len(Args) = 3
    /\ Args[1] = t_numeric
    /\ requireReal(Args[3]).t # "none"

\* the step binds the name and reports nothing
NameAccepted == Silent /\ Bound(namespace', Args[2])

\* the step reports ArgumentException and leaves the Namespace
NameRejected == Reports("ArgumentException") /\ namespace' = namespace

\* C14 as stated: `#tmp_1` and `a_9` are accepted as variable names, `9x`, the
\* empty string and `a-b` are rejected.
C14_SamplesWithHash ==
    [][ SetNumericStep =>
            /\ Args[2] \in {n_hash, n_a9} => NameAccepted
            /\ Args[2] \in {n_bad, n_empty, n_dash} => NameRejected
      ]_vars

\* C14, amended: `a_9` is accepted as a variable name; `#tmp_1`, `9x`, the
\* empty string and `a-b` are rejected.
C14_Samples ==
    [][ SetNumericStep =>
            /\ Args[2] = n_a9 => NameAccepted
            /\ Args[2] \in {n_hash, n_bad, n_empty, n_dash} => NameRejected
      ]_vars

\* `set numeric #tmp_1 2` was rejected on line 2
C14_Witness ==
    /\ last.handler = "com_set"
    /\ last.code.args = <<t_numeric, n_hash, l_2>>
    /\ reported = <<[clsname |-> "ArgumentException", lineno |-> 2]>>
    /\ namespace = <<>>

\* the characters the grammar is compared on: a lower-case and an upper-case
\* letter, a digit, the two marks, and two characters outside the grammar
IdAlphabet == {"a", "Z", "9", "_", "#", "-", "@"}
IdStrings == UNION {[1..n -> IdAlphabet] : n \in 0..MaxIdLen}

\* the identifier grammar: non-empty, letters, digits, `_` and `#` only, the
\* first character neither a digit nor `#`
GrammarOK(s) ==
    /\ Len(s) > 0
    /\ \A k \in 1..Len(s) : s[k] \in LowerCase \cup UpperCase \cup Digits \cup {"_", "#"}
    /\ s[1] \notin Digits \cup {"#"}

GrammarDecided == \A s \in IdStrings : requireIdentifier(s) <=> GrammarOK(s)

\* the value an operand token of the instruction resolves to
Operand(arg) == ResolveOperand(Rt, arg)

\* `calc` gets as far as its result-name check: the operation is known, both
\* operands resolve and the domain guards pass
ReachesNameCheck ==
    /\ Args[1] \in Operations
    /\ Operand(Args[2]).found /\ Operand(Args[3]).found
    /\ ~CalcDomainError(Args[1], Operand(Args[2]).val, Operand(Args[3]).val)

\* C15 as stated: requireIdentifier decides the grammar, and `set` and `calc`
\* report ArgumentException for every name outside it.
C15_NamesRejectedAlways ==
    [][ /\ GrammarDecided
        /\ (Fetched /\ ifs = 0 /\ Com = t_set /\ Len(Args) >= 3 /\ ~GrammarOK(Args[2])) =>
              NameRejected
        /\ (CalcStep /\ ~GrammarOK(Args[4])) => NameRejected
      ]_vars

\* C15, amended: requireIdentifier decides the grammar; `set` reports
\* ArgumentException for every name outside it; `calc` with a result name
\* outside it writes nothing and reports ArgumentException when it gets as far
\* as the result-name check, and otherwise the VariableException or
\* MathException of the earlier check.
C15_NamesRejected ==
    [][ /\ GrammarDecided
        /\ (Fetched /\ ifs = 0 /\ Com = t_set /\ Len(Args) >= 3 /\ ~GrammarOK(Args[2])) =>
              NameRejected
        /\ (CalcStep /\ ~GrammarOK(Args[4])) =>
              /\ namespace' = namespace /\ ams' = ams
              /\ IF ReachesNameCheck \/ Args[1] \notin Operations
                 THEN Reports("ArgumentException")
                 ELSE IF ~Operand(Args[2]).found \/ ~Operand(Args[3]).found
                      THEN Reports("VariableException")
                 ELSE Reports("MathException")
      ]_vars

\* `calc div 2 2 9x` was rejected for its result name
C15_Witness ==
    /\ last.handler = "com_calc"
    /\ last.code.args = <<OPERATION_DIV, l_2, l_2, n_bad>>
    /\ Len(reported) = 1
    /\ reported[1].clsname = "ArgumentException"
    /\ ams = PyInt(0)

\* spellings of each mnemonic, by the handler it selects
SpellingsOf ==
    [com_set |-> {t_set, t_SET}, com_calc |-> {t_calc, t_Calc},
     com_load |-> {t_load, t_LOAD}, com_call |-> {t_call, t_Call},
     com_if |-> {t_if, t_If}, com_endif |-> {t_endif, t_EndIf},
     com_emp |-> {t_emp, t_EMP}]

\* C16: in Executing state every spelling of a mnemonic selects that
\* mnemonic's handler, and any other mnemonic reports
\* UnsupportedOperationException, sets the status to Error, moves on to the
\* next line and changes nothing else; while skipping, every spelling of
\* `endif` selects com_endif and every spelling of `if` raises the depth.
C16_CaseInsensitiveDispatch ==
    [][ /\ (Fetched /\ ifs = 0) =>
              /\ \A h \in DOMAIN SpellingsOf :
                    current.code.com \in SpellingsOf[h] => last'.handler = h
              /\ Com \notin Mnemonics \cup {t_endif} =>
                    /\ last'.handler = "unsupported"
                    /\ Reports("UnsupportedOperationException")
                    /\ status' = RUNTIME_STATUS_ERROR
                    /\ current'.lineno = current.lineno + 1
                    /\ UNCHANGED <<namespace, ams, ifs, ptr>>
        /\ (Fetched /\ ifs > 0) =>
              /\ current.code.com \in SpellingsOf.com_endif => last'.handler = "com_endif"
              /\ current.code.com \in SpellingsOf.com_if => ifs' = ifs + 1
      ]_vars

\* `SET numeric x 2` was handled by com_set
C16_Witness ==
    /\ last.handler = "com_set"
    /\ last.code.com = t_SET
    /\ Bound(namespace, n_x)
    /\ status = RUNTIME_STATUS_RUNNING

\* an executed `calc` that returned without a diagnostic
CalcSucceeds == Fetched /\ ifs = 0 /\ Com = t_calc /\ Silent /\ pc' = "run"

\* C17: after a `calc` that reports nothing the result name is bound to a
\* variable holding the value that @AMS holds; its kind is the kind it had, or
\* Numeric if it was unbound; every other binding is as it was.
C17_CalcWritesBoth ==
    [][ CalcSucceeds =>
            /\ DOMAIN namespace' = DOMAIN namespace \cup {Args[4]}
            /\ namespace'[Args[4]].value = ams'
            /\ namespace'[Args[4]].type =
                  IF Bound(namespace, Args[4]) THEN namespace[Args[4]].type
                  ELSE VARIABLE_NUMERIC
            /\ \A k \in DOMAIN namespace : k # Args[4] => namespace'[k] = namespace[k]
      ]_vars

\* `calc add x 2 x` has overwritten the Numeric variable x and @AMS with 2
C17_Witness ==
    /\ last.handler = "com_calc"
    /\ last.code.args = <<OPERATION_ADD, n_x, l_2, n_x>>
    /\ reported = <<>>
    /\ namespace[n_x] = [type |-> VARIABLE_NUMERIC, value |-> PyInt(2)]
    /\ ams = PyInt(2)

\* an executed `set` that returned without a diagnostic
SetSucceeds == Fetched /\ ifs = 0 /\ Com = t_set /\ Silent /\ pc' = "run"

\* the Variable a successful `set` declares: the kind of the instruction, the
\* literal's value or the text tokens joined by spaces
Declared ==
    IF Args[1] = t_numeric
    THEN [type |-> VARIABLE_NUMERIC, value |-> requireReal(Args[3])]
    ELSE [type |-> VARIABLE_STRING_CONST, value |-> PyStr(Join(SubSeq(Args, 3, Len(Args))))]

\* C18: after a `set` that reports nothing the name is bound to a Variable of
\* the kind given in the instruction holding the value given in the
\* instruction, whatever was bound before, and every other binding is as it
\* was.
C18_SetReplaces ==
    [][ SetSucceeds =>
            /\ Args[1] \in {t_numeric, t_cstring}
            /\ DOMAIN namespace' = DOMAIN namespace \cup {Args[2]}
            /\ namespace'[Args[2]] = Declared
            /\ \A k \in DOMAIN namespace : k # Args[2] => namespace'[k] = namespace[k]
      ]_vars

\* `set cstring x ab cd` has replaced the Numeric x that `calc div 2 2 x` had
\* bound (the quotient is still in @AMS)
C18_Witness ==
    /\ last.handler = "com_set"
    /\ last.code.args = <<t_cstring, n_x, w_ab, w_cd>>
    /\ reported = <<>>
    /\ ams = PyFloat(1, 1)
    /\ DOMAIN namespace = {n_x}
    /\ namespace[n_x] = [type |-> VARIABLE_STRING_CONST, value |-> PyStr(Join(<<w_ab, w_cd>>))]

\* C19: @AMS holds a number in every reachable state.
C19_AmsNumeric == IsNum(ams)

\* the instruction has a number of arguments its handler does not take
ArityWrong ==
    \/ Com = t_set /\ Len(Args) < 3
    \/ Com = t_calc /\ Len(Args) # 4
    \/ Com = t_load /\ Len(Args) \notin {1, 2}
    \/ Com = t_if /\ Len(Args) # 3
    \/ Com = t_emp /\ Len(Args) # 0
    \/ Com = t_endif /\ Len(Args) # 0

\* C20: a handler invoked with a number of arguments it does not take (any
\* handler in Executing state, com_endif also while skipping) reports
\* ArgumentException and leaves Namespace, @AMS, SkipDepth and the pointer
\* register as they were; the loop moves on to the next line.
C20_WrongArity ==
    [][ (Fetched /\ (ifs = 0 \/ Com = t_endif) /\ ArityWrong) =>
            /\ Reports("ArgumentException")
            /\ UNCHANGED <<namespace, ams, ifs, ptr>>
            /\ current'.lineno = current.lineno + 1
      ]_vars

\* `endif x` inside a skipped block was reported and the depth is still 1
C20_Witness ==
    /\ last.handler = "com_endif"
    /\ last.code.args = <<n_x>>
    /\ ifs = 1
    /\ Len(reported) = 1
    /\ reported[1].clsname = "ArgumentException"

\* the diagnostics a handler or the dispatcher raises, as opposed to those of
\* construction and of End-Of-Stream
LoopRaised(d) == d.clsname \notin {"PrecheckException", "RunningException", "BlockException"}

\* the fetched instruction stands on source line `pointer` (the header is line
\* 1), and that is the line number the runtime holds for it; a diagnostic
\* raised in the loop carries the line of the last instruction processed
LineNumbersRight ==
    /\ current.code # EOF => current.lineno = pointer
    /\ \A i \in 1..Len(reported) : LoopRaised(reported[i]) => reported[i].lineno = last.lineno

\* an iteration that dispatches or skips the fetched instruction and returns
\* to the top of the loop
Iterates == Fetched /\ pc' = "run"

\* C21: every iteration that dispatches or skips an instruction moves on by
\* exactly one line, also when it reports; what it reports carries the source
\* line of its instruction; and after a report no further instruction is
\* processed.
C21_ProgramCounter ==
    /\ []LineNumbersRight
    /\ [][ /\ Iterates =>
                /\ last'.lineno = pointer
                /\ last'.code = current.code
                /\ current'.lineno = current.lineno + 1
                /\ current'.code # EOF => pointer' = pointer + 1 /\ source' # PastEnd
                /\ current'.code = EOF => pointer' = pointer
                /\ reported' # reported =>
                      /\ Len(reported') = Len(reported) + 1
                      /\ reported'[Len(reported')].lineno = pointer
           /\ reported # <<>> => last' = last
         ]_vars

\* the instruction on source line 3 was reported and the loop has moved on to
\* line 4
C21_Witness ==
    /\ pc = "run"
    /\ Len(reported) = 1
    /\ reported[1].lineno = 3
    /\ last.lineno = 3
    /\ current.lineno = 4
    /\ pointer = 4

\* C22: while the depth is above 0 an instruction other than `endif` moves
\* the loop on by one line and, if it is an `if`, raises the depth by one;
\* Namespace, @AMS, pointer register, status and diagnostics stay as they
\* were, whatever the mnemonic and the arguments of the line are.
C22_SkipFrame ==
    [][ (Fetched /\ ifs > 0 /\ Com # t_endif) =>
            /\ UNCHANGED <<namespace, ams, ptr, status, reported>>
            /\ ifs' = IF Com = t_if THEN ifs + 1 ELSE ifs
            /\ current'.lineno = current.lineno + 1
            /\ pc' = "run"
      ]_vars

\* a line with an unknown mnemonic was skipped without a diagnostic
C22_Witness ==
    /\ last.handler = "skip"
    /\ last.code.com = t_foo
    /\ ifs = 1
    /\ reported = <<>>
    /\ status = RUNTIME_STATUS_RUNNING

\* the order of two numbers
NumLess(a, b) == a.n * b.d < b.n * a.d
NumSame(a, b) == a.n * b.d = b.n * a.d

\* the truth of `a cmp b` for numbers a and b
Truth(cmp, a, b) ==
    IF cmp = COMPARISON_ABOVE THEN NumLess(b, a)
    ELSE IF cmp = COMPARISON_BELOW THEN NumLess(a, b)
    ELSE IF cmp = COMPARISON_EQUAL THEN NumSame(a, b)
    ELSE IF cmp = COMPARISON_NOTABOVE THEN ~NumLess(b, a)
    ELSE IF cmp = COMPARISON_NOTBELOW THEN ~NumLess(a, b)
    ELSE ~NumSame(a, b)

\* an executed `if` whose comparator is known and whose operands resolve to
\* numbers
IfEvaluates ==
    /\ Fetched /\ ifs = 0 /\ Com = t_if
    /\ Len(Args) = 3
    /\ Args[2] \in Comparators
    /\ Operand(Args[1]).found /\ IsNum(Operand(Args[1]).val)
    /\ Operand(Args[3]).found /\ IsNum(Operand(Args[3]).val)

\* C23: the depth is never negative; an `endif` without arguments executed at
\* depth 0 leaves the depth at 0 and reports nothing; an `if` evaluated at
\* depth 0 leaves the depth at 0 when its condition is true and sets it to 1
\* when it is false.
C23_DepthBounds ==
    /\ [](ifs \in Nat)
    /\ [][ /\ (Fetched /\ ifs = 0 /\ Com = t_endif /\ Args = <<>>) =>
                ifs' = 0 /\ Silent /\ status' = status
           /\ IfEvaluates =>
                /\ Silent
                /\ ifs' = IF Truth(Args[2], Operand(Args[1]).val, Operand(Args[3]).val)
                          THEN 0 ELSE 1
         ]_vars

\* an `endif` on line 2, at depth 0, was executed without a diagnostic
C23_Witness ==
    /\ last.handler = "com_endif"
    /\ last.code.args = <<>>
    /\ last.lineno = 2
    /\ ifs = 0
    /\ reported = <<>>

\* the operand token is neither a numeric literal nor @AMS nor a bound name
Unbound(arg) == arg # t_AMS /\ SignedLiteral(arg).t = "none" /\ ~Bound(namespace, arg)

\* what an operand token stands for: the literal's value, @AMS, or the value
\* of the variable bound to the name
ValueOf(arg) ==
    IF SignedLiteral(arg).t # "none" THEN SignedLiteral(arg)
    ELSE IF arg = t_AMS THEN ams
    ELSE namespace[arg].value

\* an executed `calc` with a known operation, an executed `if`: the
\* instructions that resolve operands (args[j] and args[k])
ResolvesOperands(j, k) ==
    /\ Fetched /\ ifs = 0
    /\ \/ Com = t_calc /\ Len(Args) = 4 /\ Args[1] \in Operations /\ j = 2 /\ k = 3
       \/ Com = t_if /\ Len(Args) = 3 /\ j = 1 /\ k = 3

\* C24: in `calc` and `if` an operand that is neither a numeric literal nor
\* @AMS nor a bound name makes the instruction report VariableException and
\* change neither Namespace, @AMS nor the depth; otherwise no
\* VariableException is reported, a `calc` that reports nothing has stored the
\* result of the operation on the operands' values (the literal's value, @AMS,
\* the bound variable's value), and an `if` on numbers sets the depth by the
\* comparison of the operands' values.
C24_OperandResolution ==
    [][ \A j, k \in 1..3 : ResolvesOperands(j, k) =>
            IF Unbound(Args[j]) \/ Unbound(Args[k])
            THEN /\ Reports("VariableException")
                 /\ UNCHANGED <<namespace, ams, ifs>>
            ELSE /\ ~Reports("VariableException")
                 /\ (Com = t_calc /\ Silent /\ pc' = "run") =>
                       ams' = Operate(Args[1], ValueOf(Args[j]), ValueOf(Args[k])).val
                 /\ (Com = t_if /\ Args[2] \in Comparators
                        /\ IsNum(ValueOf(Args[j])) /\ IsNum(ValueOf(Args[k]))) =>
                       ifs' = IF Truth(Args[2], ValueOf(Args[j]), ValueOf(Args[k]))
                              THEN 0 ELSE 1
      ]_vars

\* an operand of the fetched `calc` resolves to a number
NumberOperand(arg) == ResolveOperand(Rt, arg).found /\ IsNum(ResolveOperand(Rt, arg).val)

\* C25: a `calc` whose operands are numbers and whose result name is bound to
\* a StringConst variable reports ValueException and leaves the Namespace as
\* it was, while @AMS holds the computed result afterwards.
C25_NoRollback ==
    [][ ( /\ CalcStep
          /\ Args[1] \in Operations
          /\ NumberOperand(Args[2]) /\ NumberOperand(Args[3])
          /\ Bound(namespace, Args[4])
          /\ namespace[Args[4]].type = VARIABLE_STRING_CONST
          /\ pc' = "run"
          /\ ~Reports("MathException") ) =>
            /\ Reports("ValueException")
            /\ namespace' = namespace
            /\ ams' = Operate(Args[1], ResolveOperand(Rt, Args[2]).val,
                              ResolveOperand(Rt, Args[3]).val).val
      ]_vars

\* `calc div 2 2 s` was reported, s still holds its text and @AMS holds 1.0
C25_Witness ==
    /\ last.handler = "com_calc"
    /\ last.code.args = <<OPERATION_DIV, l_2, l_2, n_s>>
    /\ Len(reported) = 1
    /\ reported[1].clsname = "ValueException"
    /\ namespace[n_s] = [type |-> VARIABLE_STRING_CONST, value |-> PyStr(w_ab)]
    /\ ams = PyFloat(1, 1)

\* the class names of the documented diagnostics
Taxonomy ==
    {"ArgumentException", "VariableException", "TypeException", "ValueException",
     "MathException", "PackageException", "NullPointerException",
     "UnsupportedOperationException", "ComparisonException", "BlockException",
     "PrecheckException", "RunningException"}

\* the reporter, called on the runtime as it is, changes the status and the
\* list of diagnostics only
ReporterFrame ==
    \A clsname \in Taxonomy :
        LET e == error(Rt, clsname) IN
        /\ e.status = RUNTIME_STATUS_ERROR
        /\ e.reported = Append(reported, Diag(clsname))
        /\ \A f \in DOMAIN Rt \ {"status", "reported"} : e[f] = Rt[f]

\* C26: the status is Error exactly when a diagnostic has been reported: a
\* step reports iff it sets the status to Error, and the reporter changes
\* nothing but the status and the diagnostics (not the Namespace, @AMS, the
\* pointer register, the depth or the line number).
C26_ErrorIffReported ==
    /\ [](status = RUNTIME_STATUS_ERROR <=> reported # <<>>)
    /\ []ReporterFrame
    /\ [][ /\ reported' # reported => status' = RUNTIME_STATUS_ERROR
           /\ (status' = RUNTIME_STATUS_ERROR /\ status # RUNTIME_STATUS_ERROR)
                 => Len(reported') = Len(reported) + 1 ]_vars

\* a `set` has reported a TypeException and the loop has not yet looked at the
\* status
C26_Witness ==
    /\ pc = "run"
    /\ last.handler = "com_set"
    /\ status = RUNTIME_STATUS_ERROR
    /\ reported = <<[clsname |-> "TypeException", lineno |-> last.lineno]>>

\* what the stream has to give for a line: the no-op for a line that is only a
\* newline, otherwise the first token of the line's content and the tokens
\* after it
ReadVerbatim(l) ==
    IF l = <<"\n">> THEN [eof |-> FALSE, com |-> t_emp, args |-> <<>>]
    ELSE LET p == Split(Content(l)) IN [eof |-> FALSE, com |-> Head(p), args |-> Tail(p)]

\* C27: the instruction fetched from a line after the header, the last line
\* of a file without a final newline included, has the line's first token as
\* mnemonic and the other tokens as args; a line that is only a newline gives
\* the no-op, and End-Of-Stream is given only past the last line.
C27_InstructionVerbatim ==
    /\ source # PastEnd => current.code = ReadVerbatim(source)
    /\ current.code = EOF => source = PastEnd

\* C28: every reported diagnostic has a class name of the taxonomy.
C28_TaxonomyOnly ==
    \A i \in 1..Len(reported) : reported[i].clsname \in Taxonomy

\* C29: every bound variable holds a value of its kind: a Numeric variable a
\* number, a StringConst variable text.
C29_ValueOfKind ==
    \A name \in DOMAIN namespace :
        /\ namespace[name].type = VARIABLE_NUMERIC => IsNum(namespace[name].value)
        /\ namespace[name].type = VARIABLE_STRING_CONST => IsStr(namespace[name].value)

\* C30: at most one diagnostic is reported from construction to the end of the
\* run: once one is reported no step reports another.
C30_OneDiagnostic ==
    /\ [](Len(reported) <= 1)
    /\ [][reported # <<>> => reported' = reported]_vars

\* `calc div 2 2 s` stored @AMS, was refused by the variable s and reported;
\* the loop has halted with this one diagnostic
C30_Witness ==
    /\ pc = "exited"
    /\ last.handler = "com_calc"
    /\ last.code.args = <<OPERATION_DIV, l_2, l_2, n_s>>
    /\ ams = PyFloat(1, 1)
    /\ reported = <<[clsname |-> "ValueException", lineno |-> last.lineno]>>

\* the run loop is one sequential thread (seta.py calls Seta.run once): an
\* iteration that can be taken is taken
LiveSpec == Init /\ [][Next]_vars /\ WF_vars(Next)

\* the runtimes the handler of the fetched instruction can return
Outcomes ==
    IF Com = t_endif THEN {com_endif(Rt, Args)}
    ELSE IF Com = t_set THEN {com_set(Rt, Args)}
    ELSE IF Com = t_calc THEN {com_calc(Rt, Args)}
    ELSE IF Com = t_load THEN {com_load(Rt, Args)}
    ELSE IF Com = t_emp THEN {com_emp(Rt, Args)}
    ELSE IF Com = t_if THEN {com_if(Rt, Args)}
    ELSE IF Com = t_call THEN {com_call(Rt, Args, inp) : inp \in Inputs}
    ELSE {error(Rt, "UnsupportedOperationException")}

\* the fetched instruction computes a value outside the ranges this model
\* follows, or calls a builtin this model does not follow
Truncated ==
    /\ Fetched
    /\ ifs = 0 \/ Com = t_endif
    /\ \A st \in Outcomes : st.raised = "Unmodelled" \/ ~StInModel(st)

\* the loop comes to an end
LoopEnds == <>(pc # "run" \/ Truncated)

\* the iterations completed (the line number counts them from 2) are at most
\* the instruction lines fetched (the pointer counts the lines fetched, the
\* header included)
IterationBound ==
    current.lineno - 2 <= (IF header = PastEnd THEN pointer ELSE pointer - 1)

\* instructions are processed in source order, none twice
InSourceOrder ==
    last' # last =>
        /\ last'.lineno > last.lineno
        /\ last'.lineno = current.lineno
        /\ last'.code = current.code
        /\ current.code = InstructionOf(source)

\* the loop ends at End-Of-Stream or at a loop top that finds the status not
\* Running, and it ends at the first such loop top
EndsAtTop ==
    /\ (pc = "run" /\ pc' # "run") =>
          /\ pc' = "exited"
          /\ current.code = EOF \/ status # RUNTIME_STATUS_RUNNING
    /\ (pc = "run" /\ (current.code = EOF \/ status # RUNTIME_STATUS_RUNNING)) => pc' = "exited"

\* C31: the run loop terminates: its iterations are bounded by the number of
\* instruction lines plus one, instructions are processed in source order and
\* none twice, and the loop ends only at End-Of-Stream or at the first loop
\* top that finds the status not Running.
C31_Termination ==
    /\ LoopEnds
    /\ []IterationBound
    /\ [][InSourceOrder]_vars
    /\ [][EndsAtTop]_vars

====
